---- MODULE Spec2Model ----
(***************************************************************************)
(* Growth-step engine of coral_growth (src/coral_growth/coral.py).         *)
(*                                                                         *)
(* The Coral object is modelled at the granularity of the calls it makes:  *)
(* one action per createPolyp call, per iteration of the face loop of      *)
(* polypDivision, per stage of updateAttributes, plus grow_polyps, the     *)
(* NaN assertion and the age increment of step().  `pc` is the position of *)
(* the single thread of control inside __init__ / step().                  *)
(*                                                                         *)
(* Numbers are fixed point: light and collection in tenths, light_amount   *)
(* in tenths, lengths and areas in integer units.  The thresholds          *)
(* max_edge_len / max_face_area are exact rationals [num, den].            *)
(***************************************************************************)
EXTENDS Integers, Sequences, FiniteSets, TLC

VARIABLES
    pc,               \* control position inside __init__ / step()
    in_ctor,          \* TRUE while __init__ runs (its updateAttributes call included)
    verts,            \* mesh.verts : sequence of [id, polyp]; polyp = -1 is "'polyp' not in vert.data"
    faces,            \* mesh.faces : sequence of [v, l, area]; v = the three vertex ids
    n_polyps,         \* self.n_polyps
    max_polyps,       \* self.max_polyps
    polyp_verts,      \* self.polyp_verts : slot -> position of the vertex in mesh.verts, 0 = None
    polyp_memory,     \* self.polyp_memory : slot -> bitset
    polyp_light,      \* self.polyp_light  : slot -> tenths
    polyp_collection, \* self.polyp_collection : slot -> tenths
    energy,           \* self.energy, scaled by 3 * 10 * 10
    light_amount,     \* self.light_amount in tenths
    age,              \* self.age
    max_edge_len,     \* self.max_edge_len  as [num, den]
    max_face_area,    \* self.max_face_area as [num, den]
    pos_kind,         \* what np.sum(polyp_pos[:n_polyps]) is: "finite", "nan", or "inf"
                      \* (some coordinate is infinite and the sum is +inf or -inf)
    fi,               \* index of the face loop of polypDivision
    vi,               \* index of the vertex loops (__init__ and polypDivision)
    split_log,        \* the split() calls issued by the current division pass
    stage_log,        \* the stages the current updateAttributes run has executed
    raw_light,        \* polyp_light as light.calculate_light left it in this run
    sim,              \* the frame of simulate_network: its argument params, its loop
                      \* variables w_i and s (step() calls made for the current
                      \* configuration) and the length of its list corals
    out,              \* the export() call made since the last step, if any: the 'c' lines
                      \* it wrote (c) and whether it raised (error)
    hist              \* snapshots: n_polyps at step entry (step_n); n_polyps, vertex count,
                      \* longest edge and largest area at the start of a division pass
                      \* (pass_*); n_polyps and mesh.verts at the end of a bind pass (bind_*);
                      \* longest edge and largest area of the initial mesh and n_polyps at
                      \* the end of __init__ (init_*); whether grow_polyps ever moved a
                      \* polyp (moved)

vars == <<pc, in_ctor, verts, faces, n_polyps, max_polyps, polyp_verts, polyp_memory,
          polyp_light, polyp_collection, energy, light_amount, age, max_edge_len,
          max_face_area, pos_kind, fi, vi, split_log, stage_log, raw_light, sim, out, hist>>

-----------------------------------------------------------------------------
(* Bounds of the model *)

\* largest max_polyps a configuration may carry
MaxPolypsBound == 5
\* step() calls explored after construction
MaxSteps == 2
\* params.polyp_memory : number of memory bits of a polyp
n_memory == 1
\* params.n_morphogens : number of morphogens
n_morphogens == 1
\* longest list of configurations handed to simulate_network
MaxConfigs == 2

\* max_face_growth values of the configuration (params.max_face_growth)
GrowthFactors == {1, 2}
\* light_amount values of the configuration, in tenths
LightAmounts == {5}
\* raw light values light.calculate_light produces, in tenths: the light
\* field varies from polyp to polyp, polyp i getting LightGrid[i mod 3]
LightGrid == <<0, 3, 10>>
\* collection values flow.calculate_collection may produce, in tenths
CollectionGrid == {4}

-----------------------------------------------------------------------------
(* Helpers *)

Max2(a, b) == IF a >= b THEN a ELSE b
Max3(l) == Max2(l[1], Max2(l[2], l[3]))

SetMax(S) == CHOOSE x \in S : \A y \in S : y <= x

RECURSIVE SeqSum(_)
SeqSum(s) == IF s = <<>> THEN 0 ELSE Head(s) + SeqSum(Tail(s))

RECURSIVE Pow2(_)
Pow2(n) == IF n = 0 THEN 1 ELSE 2 * Pow2(n - 1)

\* memory & (1 << i)
BitSet(m, i) == (m \div Pow2(i)) % 2 = 1

\* x > t for a rational threshold t = num / den
Exceeds(x, t) == x * t.den > t.num

Slots == 0 .. (max_polyps - 1)

\* no export() call since the last step
NoExport == [c |-> <<>>, error |-> FALSE]

\* the Coral is constructed and stepped directly, not by simulate_network
NoDriver == [params |-> <<>>, w_i |-> 0, s |-> 0, corals |-> 0]

-----------------------------------------------------------------------------
(* The mesh collaborator (cymesh), as far as Coral uses it *)

Face(v, l, area) == [v |-> v, l |-> l, area |-> area]

\* Mesh.from_obj : the meshes a run may start from.  Vertex ids are the
\* positions in the file, counted from 0; `edges` lists edge.length() of
\* every edge of the mesh once.
InitMeshes ==
    { [nverts |-> 3,
       faces  |-> << Face(<<0, 1, 2>>, <<3, 3, 3>>, 9) >>,
       edges  |-> <<3, 3, 3>>],
      [nverts |-> 4,
       faces  |-> << Face(<<0, 1, 2>>, <<3, 3, 3>>, 9),
                     Face(<<0, 2, 3>>, <<3, 6, 6>>, 27) >>,
       edges  |-> <<3, 3, 3, 6, 6>>] }

\* position in mesh.verts of the vertex whose id is `id`
PosOfId(vs, id) == CHOOSE j \in 1 .. Len(vs) : vs[j].id = id

\* vert.neighbors() : the one-ring of the vertex at position k, as positions
Neighbors(vs, fs, k) ==
    { PosOfId(vs, fs[f].v[c]) :
        <<f, c>> \in { <<f, c>> \in (1 .. Len(fs)) \X (1 .. 3) :
                         /\ \E d \in 1 .. 3 : fs[f].v[d] = vs[k].id
                         /\ fs[f].v[c] # vs[k].id } }

\* length of the three new edges when a face with edges l is split at its
\* centroid: two thirds of a median, taken at its bound of two thirds of the
\* longest edge
CentroidLen(l) == (2 * Max3(l)) \div 3

\* cymesh.subdivision.sqrt3.split(mesh, face, max_vertices) on the face at
\* position f: nothing once the mesh holds max_vertices vertices; else one
\* new vertex, with the next identifier, at the centroid; the face object is
\* kept as one of the three sub-faces and the two others are appended.
SplitMesh(vs, fs, f, max_vertices) ==
    IF Len(vs) >= max_vertices
    THEN [verts |-> vs, faces |-> fs]
    ELSE LET n  == Len(vs)
             fa == fs[f]
             a3 == fa.area \div 3
             c  == CentroidLen(fa.l)
         IN  [verts |-> Append(vs, [id |-> n, polyp |-> -1]),
              faces |-> [fs EXCEPT ![f] = Face(<<fa.v[1], fa.v[2], n>>, <<fa.l[1], c, c>>, a3)]
                        \o << Face(<<fa.v[2], fa.v[3], n>>, <<fa.l[2], c, c>>, a3),
                              Face(<<fa.v[3], fa.v[1], n>>, <<fa.l[3], c, c>>, a3) >>]

-----------------------------------------------------------------------------
(* Coral.__init__, lines 30-81: the state before the first createPolyp call *)

Init ==
    \E m \in InitMeshes, mp \in 3 .. MaxPolypsBound, g \in GrowthFactors, la \in LightAmounts :
        /\ pc = "ctor_bind"
        /\ in_ctor = TRUE
        /\ verts = [k \in 1 .. m.nverts |-> [id |-> k - 1, polyp |-> -1]]
        /\ faces = m.faces
        /\ n_polyps = 0
        /\ max_polyps = mp
        /\ polyp_verts = [i \in 0 .. (mp - 1) |-> 0]
        /\ polyp_memory = [i \in 0 .. (mp - 1) |-> 0]
        /\ polyp_light = [i \in 0 .. (mp - 1) |-> 0]
        /\ polyp_collection = [i \in 0 .. (mp - 1) |-> 0]
        /\ energy = 0
        /\ light_amount = la
        /\ age = 0
        /\ max_edge_len = [num |-> SeqSum(m.edges) * g, den |-> Len(m.edges)]
        /\ max_face_area = [num |-> SeqSum([f \in 1 .. Len(m.faces) |-> m.faces[f].area]) * g,
                            den |-> Len(m.faces)]
        /\ pos_kind = "finite"
        /\ fi = 1
        /\ vi = 1
        /\ split_log = <<>>
        /\ stage_log = <<>>
        /\ raw_light = [i \in 0 .. (mp - 1) |-> 0]
        /\ sim = NoDriver
        /\ out = NoExport
        /\ hist = [step_n |-> 0, pass_n |-> 0, pass_verts |-> m.nverts, pass_len |-> 0,
                   pass_area |-> 0, bind_n |-> 0,
                   bind_verts |-> [k \in 1 .. m.nverts |-> [id |-> k - 1, polyp |-> -1]],
                   init_len |-> SetMax({ Max3(m.faces[f].l) : f \in 1 .. Len(m.faces) }),
                   init_area |-> SetMax({ m.faces[f].area : f \in 1 .. Len(m.faces) }),
                   init_n |-> 0,
                   moved |-> FALSE]

-----------------------------------------------------------------------------
(* Coral.createPolyp *)

\* lines 161-174: the memory the polyp in slot idx gets, for the vertex at
\* position k; vs and mem are the state after lines 153-159
InheritedMemory(vs, fs, mem, k, idx) ==
    LET neighbors == Neighbors(vs, fs, k)
        half == Cardinality(neighbors) \div 2
        foo(i) == Cardinality({ j \in neighbors :
                                  vs[j].polyp # -1 /\ BitSet(mem[vs[j].polyp], i) })
        bit(i) == IF BitSet(mem[idx], i) \/ foo(i) > half THEN Pow2(i) ELSE 0
    IN  SeqSum([i \in 1 .. n_memory |-> bit(i - 1)])

\* the loop of lines 165-170 leaving at the first neighbour without a polyp
\* instead of skipping it
RECURSIVE TallyLoopBreak(_, _, _)
TallyLoopBreak(order, vs, mem) ==
    IF order = <<>> \/ vs[Head(order)].polyp = -1
    THEN [i \in 0 .. (n_memory - 1) |-> 0]
    ELSE LET foo == TallyLoopBreak(Tail(order), vs, mem)
             memory == mem[vs[Head(order)].polyp]
         IN  [i \in 0 .. (n_memory - 1) |-> IF BitSet(memory, i) THEN foo[i] + 1 ELSE foo[i]]

\* lines 161, 165-170 : foo once the loop has visited the neighbours in the
\* order of the sequence `order` (positions in mesh.verts)
RECURSIVE TallyLoop(_, _, _)
TallyLoop(order, vs, mem) ==
    IF order = <<>>
    THEN [i \in 0 .. (n_memory - 1) |-> 0]
    ELSE LET foo == TallyLoop(SubSeq(order, 1, Len(order) - 1), vs, mem)
             vert_n == vs[order[Len(order)]]
         IN  IF vert_n.polyp # -1
             THEN [i \in 0 .. (n_memory - 1) |->
                     IF BitSet(mem[vert_n.polyp], i) THEN foo[i] + 1 ELSE foo[i]]
             ELSE foo

\* lines 161-174 for a given iteration order of vert.neighbors(): the memory
\* of slot idx afterwards
MemoryLoop(order, vs, mem, idx) ==
    LET foo == TallyLoop(order, vs, mem)
        half == Len(order) \div 2
        bit(i) == IF BitSet(mem[idx], i) \/ foo[i] > half THEN Pow2(i) ELSE 0
    IN  SeqSum([i \in 1 .. n_memory |-> bit(i - 1)])

\* the orders in which the elements of S can be iterated
Orders(S) ==
    { o \in [1 .. Cardinality(S) -> S] : \A a, b \in 1 .. Cardinality(S) : o[a] = o[b] => a = b }

\* line 178: assert vert.id == idx (idx is n_polyps before the call)
CreateAssertHolds(k) == n_polyps = max_polyps \/ verts[k].id = n_polyps

\* createPolyp without the capacity test of lines 150-151
createPolypNoCap(k) ==
    LET idx == n_polyps
        vs  == [verts EXCEPT ![k].polyp = idx]
    IN  /\ n_polyps' = n_polyps + 1
        /\ verts' = vs
        /\ polyp_verts' = [polyp_verts EXCEPT ![idx] = k]
        /\ polyp_memory' = [polyp_memory EXCEPT
                              ![idx] = InheritedMemory(vs, faces, polyp_memory, k, idx)]

\* createPolyp with lines 153 and 154 exchanged: the slot is taken after the increment
createPolypIncFirst(k) ==
    IF n_polyps = max_polyps
    THEN UNCHANGED <<n_polyps, verts, polyp_verts, polyp_memory>>
    ELSE LET idx == n_polyps + 1
             vs  == [verts EXCEPT ![k].polyp = idx]
         IN  /\ n_polyps' = n_polyps + 1
             /\ verts' = vs
             /\ polyp_verts' = [polyp_verts EXCEPT ![idx] = k]
             /\ polyp_memory' = polyp_memory

\* createPolyp(vert) for the vertex at position k of mesh.verts
createPolyp(k) ==
    IF n_polyps = max_polyps
    THEN UNCHANGED <<n_polyps, verts, polyp_verts, polyp_memory>>
    ELSE LET idx == n_polyps
             vs  == [verts EXCEPT ![k].polyp = idx]
         IN  /\ n_polyps' = n_polyps + 1
             /\ verts' = vs
             /\ polyp_verts' = [polyp_verts EXCEPT ![idx] = k]
             /\ polyp_memory' = [polyp_memory EXCEPT
                                   ![idx] = InheritedMemory(vs, faces, polyp_memory, k, idx)]

\* lines 83-84: for vert in self.mesh.verts: self.createPolyp(vert)
CtorCreatePolyp ==
    /\ pc = "ctor_bind"
    /\ vi <= Len(verts)
    /\ createPolyp(vi)
    /\ vi' = vi + 1
    /\ pc' = IF CreateAssertHolds(vi) THEN "ctor_bind" ELSE "raised"
    /\ hist' = [hist EXCEPT !.bind_n = n_polyps', !.bind_verts = verts']
    /\ UNCHANGED <<sim, out, in_ctor, faces, max_polyps, polyp_light, polyp_collection, energy,
                   light_amount, age, max_edge_len, max_face_area, pos_kind, fi,
                   split_log, stage_log, raw_light>>

\* lines 86-88: normals and curvature, then the call of updateAttributes
CtorGeometry ==
    /\ pc = "ctor_bind"
    /\ vi > Len(verts)
    /\ pc' = "ua_normals"
    /\ stage_log' = <<>>
    /\ hist' = [hist EXCEPT !.init_n = n_polyps]
    /\ UNCHANGED <<sim, out, in_ctor, verts, faces, n_polyps, max_polyps, polyp_verts, polyp_memory,
                   polyp_light, polyp_collection, energy, light_amount, age, max_edge_len,
                   max_face_area, pos_kind, fi, vi, split_log, raw_light>>

-----------------------------------------------------------------------------
(* Coral.step, lines 94-99: grow_polyps and the NaN assertion *)

\* edge lengths and area a face may have after its polyps moved: a long
\* edge, a large area, or both
Geoms ==
    { [l |-> <<9, 6, 6>>, area |-> 9],
      [l |-> <<3, 3, 3>>, area |-> 81],
      [l |-> <<9, 6, 6>>, area |-> 81] }

\* what the sum of the live positions may be after the polyps moved: a
\* finite number; NaN (some coordinate is NaN, or infinities of both signs
\* meet); or an infinity (some coordinate is infinite, none is NaN, and all
\* the infinite ones have the same sign)
PosKinds == {"finite", "nan", "inf"}

\* grow_polyps(self): the decision function moves the polyps of one face (or
\* of none), which changes that face's edge lengths and area; it rewrites the
\* memory of the live polyps (every bit set in all of them, in all but the
\* last, or in none); and it may leave a NaN or an infinite coordinate among the
\* live positions.  It creates no vertex and binds no polyp.
GrowPolyps ==
    /\ pc = "ready"
    /\ age < MaxSteps
    /\ \E t \in 0 .. Len(faces), g \in Geoms :
          faces' = IF t = 0 THEN faces ELSE [faces EXCEPT ![t].l = g.l, ![t].area = g.area]
    /\ \E p \in {0, n_polyps - 1, n_polyps} :
          polyp_memory' = [i \in Slots |-> IF i < p THEN Pow2(n_memory) - 1
                                           ELSE IF i < n_polyps THEN 0
                                           ELSE polyp_memory[i]]
    /\ pos_kind' \in PosKinds
    /\ out' = NoExport
    /\ hist' = [hist EXCEPT !.step_n = n_polyps,
                            !.moved = hist.moved \/ faces' # faces \/ pos_kind' # "finite"]
    /\ pc' = "assert"
    /\ UNCHANGED <<sim, in_ctor, verts, n_polyps, max_polyps, polyp_verts, polyp_light,
                   polyp_collection, energy, light_amount, age, max_edge_len,
                   max_face_area, fi, vi, split_log, stage_log, raw_light>>

\* the edge test with >= in place of >
EdgeTriggerAtLeast(f) == Max3(f.l) * max_edge_len.den >= max_edge_len.num

\* line 188 : max(l1, l2, l3) > self.max_edge_len
EdgeTrigger(f) == Exceeds(Max3(f.l), max_edge_len)

\* the area test with >= in place of >
AreaTriggerAtLeast(f) == f.area * max_face_area.den >= max_face_area.num

\* line 191 : face.area() > self.max_face_area
AreaTrigger(f) == Exceeds(f.area, max_face_area)

\* line 99 : np.isnan(np.sum(self.polyp_pos[:self.n_polyps]))
NanPosition == pos_kind = "nan"

\* line 99, and the entry of polypDivision at line 106
AssertFinite ==
    /\ pc = "assert"
    /\ IF NanPosition
       THEN /\ pc' = "raised"
            /\ UNCHANGED <<fi, split_log, hist>>
       ELSE /\ pc' = "div_faces"
            /\ fi' = 1
            /\ split_log' = <<>>
            /\ hist' = [hist EXCEPT
                          !.pass_n = n_polyps,
                          !.pass_verts = Len(verts),
                          !.pass_len = SetMax({ Max3(faces[f].l) : f \in 1 .. Len(faces) }),
                          !.pass_area = SetMax({ faces[f].area : f \in 1 .. Len(faces) })]
    /\ UNCHANGED <<sim, out, in_ctor, verts, faces, n_polyps, max_polyps, polyp_verts, polyp_memory,
                   polyp_light, polyp_collection, energy, light_amount, age, max_edge_len,
                   max_face_area, pos_kind, vi, stage_log, raw_light>>

-----------------------------------------------------------------------------
(* Coral.polypDivision *)

\* what the log keeps of one split() call: the face, the test that issued it,
\* the face's geometry and n_polyps at the call
Call(f, by, fa) == [face |-> f, by |-> by, l |-> fa.l, area |-> fa.area, n_polyps |-> n_polyps]

\* the face loop's body passing max_vertices = max_polyps + 1 to split()
DivideFaceOffByOne(vs, fs, f) ==
    LET edge == EdgeTrigger(fs[f])
        m1   == IF edge THEN SplitMesh(vs, fs, f, max_polyps + 1)
                        ELSE [verts |-> vs, faces |-> fs]
        area == AreaTrigger(m1.faces[f])
        m2   == IF area THEN SplitMesh(m1.verts, m1.faces, f, max_polyps + 1) ELSE m1
    IN  [verts |-> m2.verts,
         faces |-> m2.faces,
         calls |-> (IF edge THEN << Call(f, "edge", fs[f]) >> ELSE <<>>)
                   \o (IF area THEN << Call(f, "area", m1.faces[f]) >> ELSE <<>>)]

\* lines 184-192, the body of the face loop for the face at position f:
\* the mesh afterwards and the split() calls issued
DivideFace(vs, fs, f) ==
    LET edge == EdgeTrigger(fs[f])
        m1   == IF edge THEN SplitMesh(vs, fs, f, max_polyps)
                        ELSE [verts |-> vs, faces |-> fs]
        area == AreaTrigger(m1.faces[f])
        m2   == IF area THEN SplitMesh(m1.verts, m1.faces, f, max_polyps) ELSE m1
    IN  [verts |-> m2.verts,
         faces |-> m2.faces,
         calls |-> (IF edge THEN << Call(f, "edge", fs[f]) >> ELSE <<>>)
                   \o (IF area THEN << Call(f, "area", m1.faces[f]) >> ELSE <<>>)]

\* lines 194-195 : if self.n_polyps == self.max_polyps: break
CapacityBreak == n_polyps = max_polyps

\* one iteration of `for face in self.mesh.faces`; the loop runs over the
\* list itself, so faces appended by split() are visited by the same pass
DivisionFace ==
    /\ pc = "div_faces"
    /\ fi <= Len(faces)
    /\ LET d == DivideFace(verts, faces, fi)
       IN  /\ verts' = d.verts
           /\ faces' = d.faces
           /\ split_log' = split_log \o d.calls
    /\ IF CapacityBreak
       THEN pc' = "div_bind" /\ vi' = 1 /\ fi' = fi
       ELSE pc' = pc /\ vi' = vi /\ fi' = fi + 1
    /\ UNCHANGED <<sim, out, in_ctor, n_polyps, max_polyps, polyp_verts, polyp_memory, polyp_light,
                   polyp_collection, energy, light_amount, age, max_edge_len,
                   max_face_area, pos_kind, stage_log, raw_light, hist>>

\* the face loop ran off the end of mesh.faces
DivisionFacesDone ==
    /\ pc = "div_faces"
    /\ fi > Len(faces)
    /\ pc' = "div_bind"
    /\ vi' = 1
    /\ UNCHANGED <<sim, out, in_ctor, verts, faces, n_polyps, max_polyps, polyp_verts, polyp_memory,
                   polyp_light, polyp_collection, energy, light_amount, age, max_edge_len,
                   max_face_area, pos_kind, fi, split_log, stage_log, raw_light, hist>>

\* the bind pass without the test of line 198
NeedsPolypAlways(k) == TRUE

\* the test of line 198 looking at the number of polyps instead of the vertex
NeedsPolypByCount(k) == k > n_polyps + 1

\* line 198 : 'polyp' not in vert.data
NeedsPolyp(k) == verts[k].polyp = -1

\* lines 197-199, one iteration of `for vert in self.mesh.verts`
DivisionBind ==
    /\ pc = "div_bind"
    /\ vi <= Len(verts)
    /\ IF NeedsPolyp(vi)
       THEN /\ createPolyp(vi)
            /\ pc' = IF CreateAssertHolds(vi) THEN pc ELSE "raised"
       ELSE /\ UNCHANGED <<n_polyps, verts, polyp_verts, polyp_memory>>
            /\ pc' = pc
    /\ vi' = vi + 1
    /\ UNCHANGED <<sim, out, in_ctor, faces, max_polyps, polyp_light, polyp_collection, energy,
                   light_amount, age, max_edge_len, max_face_area, pos_kind, fi,
                   split_log, stage_log, raw_light, hist>>

\* polypDivision returns; step() calls updateAttributes (line 109)
DivisionDone ==
    /\ pc = "div_bind"
    /\ vi > Len(verts)
    /\ pc' = "ua_normals"
    /\ stage_log' = <<>>
    /\ hist' = [hist EXCEPT !.bind_n = n_polyps, !.bind_verts = verts]
    /\ UNCHANGED <<sim, out, in_ctor, verts, faces, n_polyps, max_polyps, polyp_verts, polyp_memory,
                   polyp_light, polyp_collection, energy, light_amount, age, max_edge_len,
                   max_face_area, pos_kind, fi, vi, split_log, raw_light>>

-----------------------------------------------------------------------------
(* Coral.updateAttributes and Coral.calculateEnergy *)

\* updateAttributes with the gravity call moved before the remap
NextStageGravityFirst(stage) ==
    CASE stage = "ua_normals"    -> "ua_light"
      [] stage = "ua_light"      -> "ua_collection"
      [] stage = "ua_collection" -> "ua_gravity"
      [] stage = "ua_gravity"    -> "ua_remap"
      [] stage = "ua_remap"      -> "ua_morphogens"
      [] stage = "ua_morphogens" -> "ua_energy"
      [] OTHER                   -> "ua_return"

\* the order of the statements of updateAttributes, lines 113-135
NextStage(stage) ==
    CASE stage = "ua_normals"    -> "ua_light"
      [] stage = "ua_light"      -> "ua_collection"
      [] stage = "ua_collection" -> "ua_remap"
      [] stage = "ua_remap"      -> "ua_gravity"
      [] stage = "ua_gravity"    -> "ua_morphogens"
      [] stage = "ua_morphogens" -> "ua_energy"
      [] OTHER                   -> "ua_return"

\* what a stage leaves alone besides the arrays it owns
StageFrame ==
    UNCHANGED <<sim, out, in_ctor, verts, faces, n_polyps, max_polyps, polyp_verts, polyp_memory,
                light_amount, age, max_edge_len, max_face_area, pos_kind, fi, vi,
                split_log, hist>>

\* lines 113-114 : mesh.calculateNormals(); mesh.calculateCurvature()
UaNormals ==
    /\ pc = "ua_normals"
    /\ stage_log' = Append(stage_log, "normals")
    /\ pc' = NextStage(pc)
    /\ StageFrame
    /\ UNCHANGED <<polyp_light, polyp_collection, energy, raw_light>>

\* line 117 : light.calculate_light(self) writes a raw value of the grid
\* into the slot of every polyp
UaLight ==
    /\ pc = "ua_light"
    /\ polyp_light' = [i \in Slots |->
                         IF i < n_polyps THEN LightGrid[(i % Len(LightGrid)) + 1]
                                         ELSE polyp_light[i]]
    /\ raw_light' = polyp_light'
    /\ stage_log' = Append(stage_log, "light")
    /\ pc' = NextStage(pc)
    /\ StageFrame
    /\ UNCHANGED <<polyp_collection, energy>>

\* line 121 : flow.calculate_collection(self, 2)
UaCollection ==
    /\ pc = "ua_collection"
    /\ \E c \in CollectionGrid :
          polyp_collection' = [i \in Slots |-> IF i < n_polyps THEN c ELSE polyp_collection[i]]
    /\ stage_log' = Append(stage_log, "collection")
    /\ pc' = NextStage(pc)
    /\ StageFrame
    /\ UNCHANGED <<polyp_light, energy, raw_light>>

\* line 124 without its mask: every value is shifted
ShiftAll(a) == [i \in DOMAIN a |-> a[i] - 5]

\* line 124 : self.polyp_light[self.polyp_light != 0] -= .5
ShiftNonZero(a) == [i \in DOMAIN a |-> IF a[i] # 0 THEN a[i] - 5 ELSE a[i]]

\* line 125 with a factor of 3
Triple(a) == [i \in DOMAIN a |-> a[i] * 3]

\* line 125 : self.polyp_light *= 2
Double(a) == [i \in DOMAIN a |-> a[i] * 2]

\* lines 124-125
UaRemap ==
    /\ pc = "ua_remap"
    /\ polyp_light' = Double(ShiftNonZero(polyp_light))
    /\ stage_log' = Append(stage_log, "remap")
    /\ pc' = NextStage(pc)
    /\ StageFrame
    /\ UNCHANGED <<polyp_collection, energy, raw_light>>

\* line 129 : gravity.calculate_gravity(self)
UaGravity ==
    /\ pc = "ua_gravity"
    /\ stage_log' = Append(stage_log, "gravity")
    /\ pc' = NextStage(pc)
    /\ StageFrame
    /\ UNCHANGED <<polyp_light, polyp_collection, energy, raw_light>>

\* line 132 : self.morphogens.update(self.morphogen_steps)
UaMorphogens ==
    /\ pc = "ua_morphogens"
    /\ stage_log' = Append(stage_log, "morphogens")
    /\ pc' = NextStage(pc)
    /\ StageFrame
    /\ UNCHANGED <<polyp_light, polyp_collection, energy, raw_light>>

\* lines 141-145 : the sum over the faces of area * sum(a[v.id] for v) / 3,
\* times 3
FaceTotal3(fs, a) ==
    SeqSum([f \in 1 .. Len(fs) |->
              fs[f].area * (a[fs[f].v[1]] + a[fs[f].v[2]] + a[fs[f].v[3]])])

\* line 147 with the collection term subtracted
EnergyDifference(light3, collection3, la) == light3 * la - collection3 * (10 - la)

\* line 147, times 3 * 10 * 10
Energy(light3, collection3, la) == light3 * la + collection3 * (10 - la)

\* lines 144-145 : the indices at which calculateEnergy reads polyp_light and
\* polyp_collection, the ids of the vertices of the faces
EnergyReads == { faces[f].v[c] : f \in 1 .. Len(faces), c \in 1 .. 3 }

\* lines 144-145 index the arrays with v.id: an id outside them is an IndexError
EnergyIndexError == \E f \in 1 .. Len(faces), c \in 1 .. 3 : faces[f].v[c] \notin Slots

\* line 135 : self.calculateEnergy(), then the return of updateAttributes to
\* __init__ (line 88) or to step() (line 109)
UaEnergy ==
    /\ pc = "ua_energy"
    /\ stage_log' = Append(stage_log, "energy")
    /\ IF EnergyIndexError
       THEN /\ pc' = "raised"
            /\ UNCHANGED <<energy, in_ctor>>
       ELSE /\ energy' = Energy(FaceTotal3(faces, polyp_light),
                                FaceTotal3(faces, polyp_collection), light_amount)
            /\ pc' = IF in_ctor THEN "ready" ELSE "step_age"
            /\ in_ctor' = FALSE
    /\ UNCHANGED <<sim, out, verts, faces, n_polyps, max_polyps, polyp_verts, polyp_memory,
                   polyp_light, polyp_collection, light_amount, age, max_edge_len,
                   max_face_area, pos_kind, fi, vi, split_log, raw_light, hist>>

\* line 110 : self.age += 1
StepAge ==
    /\ pc = "step_age"
    /\ age' = age + 1
    /\ pc' = "ready"
    /\ UNCHANGED <<sim, out, in_ctor, verts, faces, n_polyps, max_polyps, polyp_verts, polyp_memory,
                   polyp_light, polyp_collection, energy, light_amount, max_edge_len,
                   max_face_area, pos_kind, fi, vi, split_log, stage_log, raw_light, hist>>

-----------------------------------------------------------------------------
(* Coral.export *)

\* lines 218-220 : the names of the columns
Header ==
    <<"light", "collection", "gravity", "curvature", "memory", "collided">>
    \o [j \in 1 .. n_morphogens |-> <<"u", j - 1>>]

\* lines 249-254 alone: the row without the morphogen columns of lines 256-257
AttributeRowNoMorphogens(i) ==
    <<polyp_light[i], polyp_collection[i], 0, 0, polyp_memory[i], 0>>

\* lines 249-257 : the attributes of the polyp in slot i.  Gravity,
\* curvature, the collided flag and the morphogen concentrations are written
\* as 0.
AttributeRow(i) ==
    <<polyp_light[i], polyp_collection[i], 0, 0, polyp_memory[i], 0>>
    \o [j \in 1 .. n_morphogens |-> 0]

\* line 247 : id_to_indx[self.polyp_verts[i].id], the position (from 0) in
\* mesh.verts of the vertex of slot i
IndxOfSlot(i) == PosOfId(verts, verts[polyp_verts[i]].id) - 1

\* lines 244-259 : the list polyp_attributes, of length n_polyps; an entry
\* no slot was written to is None
PolypAttributes ==
    [x \in 1 .. n_polyps |->
        LET writers == { i \in 0 .. (n_polyps - 1) : IndxOfSlot(i) = x - 1 }
        IN  IF writers = {} THEN <<"None">> ELSE AttributeRow(SetMax(writers))]

\* the ways export() raises: the IndexError of line 249 for an index past the
\* list, the assertion of line 259, the TypeError of line 262 for a None entry
ExportRaises ==
    \/ \E i \in 0 .. (n_polyps - 1) : IndxOfSlot(i) >= n_polyps
    \/ \E i \in 0 .. (n_polyps - 1) : Len(AttributeRow(i)) # Len(Header)
    \/ \E x \in 1 .. n_polyps : PolypAttributes[x] = <<"None">>

\* coral.export(path) on a constructed coral, between two steps: one 'c' line
\* per entry of polyp_attributes (lines 261-262)
Export ==
    /\ pc = "ready"
    /\ IF ExportRaises
       THEN /\ out' = [c |-> <<>>, error |-> TRUE]
            /\ pc' = "raised"
       ELSE /\ out' = [c |-> PolypAttributes, error |-> FALSE]
            /\ pc' = pc
    /\ UNCHANGED <<sim, in_ctor, verts, faces, n_polyps, max_polyps, polyp_verts, polyp_memory,
                   polyp_light, polyp_collection, energy, light_amount, age, max_edge_len,
                   max_face_area, pos_kind, fi, vi, split_log, stage_log, raw_light, hist>>

-----------------------------------------------------------------------------

Next ==
    \/ CtorCreatePolyp
    \/ CtorGeometry
    \/ GrowPolyps
    \/ AssertFinite
    \/ DivisionFace
    \/ DivisionFacesDone
    \/ DivisionBind
    \/ DivisionDone
    \/ UaNormals
    \/ UaLight
    \/ UaCollection
    \/ UaRemap
    \/ UaGravity
    \/ UaMorphogens
    \/ UaEnergy
    \/ StepAge
    \/ Export

Spec == Init /\ [][Next]_vars

-----------------------------------------------------------------------------
(* Coral.createPolyp as a method any holder of the Coral may call *)

\* coral.createPolyp(vert) between two steps, for the vertex at position k
ClientCreatePolypOn(k) ==
    /\ pc = "ready"
    /\ createPolyp(k)
    /\ pc' = IF CreateAssertHolds(k) THEN "ready" ELSE "raised"
    /\ UNCHANGED <<sim, out, in_ctor, faces, max_polyps, polyp_light, polyp_collection, energy,
                   light_amount, age, max_edge_len, max_face_area, pos_kind, fi, vi,
                   split_log, stage_log, raw_light, hist>>

ClientCreatePolyp == \E k \in 1 .. Len(verts) : ClientCreatePolypOn(k)

NextCreate ==
    \/ Next
    \/ ClientCreatePolyp

SpecCreate == Init /\ [][NextCreate]_vars

-----------------------------------------------------------------------------
(* simulate.simulate_network *)

\* the configurations a list params may hold
Configs ==
    [max_polyps : 3 .. MaxPolypsBound, max_steps : 0 .. MaxSteps,
     max_face_growth : GrowthFactors, light_amount : LightAmounts]

\* coral.py line 30 : the parameters of Coral.__init__ besides self
\* (obj_path, network, net_depth, traits, params)
CoralInitArity == 5

\* simulate.py line 20 : the arguments of the call
\* Coral(obj_path, network, net_depth, traits, w_config, save_flow_data)
CoralCallArgs == 6

\* simulate_network(network, net_depth, traits, params) is entered: corals is
\* empty, the loop over params is at its first configuration, and no Coral
\* exists yet
InitSimulate ==
    \E n \in 0 .. MaxConfigs :
      \E ps \in [1 .. n -> Configs] :
        /\ pc = "sim_construct"
        /\ sim = [params |-> ps, w_i |-> 1, s |-> 0, corals |-> 0]
        /\ in_ctor = FALSE
        /\ verts = <<>>
        /\ faces = <<>>
        /\ n_polyps = 0
        /\ max_polyps = 0
        /\ polyp_verts = <<>>
        /\ polyp_memory = <<>>
        /\ polyp_light = <<>>
        /\ polyp_collection = <<>>
        /\ energy = 0
        /\ light_amount = 0
        /\ age = 0
        /\ max_edge_len = [num |-> 0, den |-> 1]
        /\ max_face_area = [num |-> 0, den |-> 1]
        /\ pos_kind = "finite"
        /\ fi = 1
        /\ vi = 1
        /\ split_log = <<>>
        /\ stage_log = <<>>
        /\ raw_light = <<>>
        /\ out = NoExport
        /\ hist = [step_n |-> 0, pass_n |-> 0, pass_verts |-> 0, pass_len |-> 0,
                   pass_area |-> 0, bind_n |-> 0, bind_verts |-> <<>>, init_len |-> 0,
                   init_area |-> 0, init_n |-> 0, moved |-> FALSE]

\* line 20, for the configuration at position w_i of params: the call passes
\* more positional arguments than Coral.__init__ accepts, which is a
\* TypeError; nothing of lines 22-51 is reached
SimConstructCoral ==
    /\ pc = "sim_construct"
    /\ sim.w_i <= Len(sim.params)
    /\ CoralCallArgs # CoralInitArity
    /\ pc' = "raised"
    /\ UNCHANGED <<sim, out, in_ctor, verts, faces, n_polyps, max_polyps, polyp_verts,
                   polyp_memory, polyp_light, polyp_collection, energy, light_amount, age,
                   max_edge_len, max_face_area, pos_kind, fi, vi, split_log, stage_log,
                   raw_light, hist>>

\* line 53 : the loop over params is exhausted, return corals
SimReturn ==
    /\ pc = "sim_construct"
    /\ sim.w_i > Len(sim.params)
    /\ pc' = "sim_returned"
    /\ UNCHANGED <<sim, out, in_ctor, verts, faces, n_polyps, max_polyps, polyp_verts,
                   polyp_memory, polyp_light, polyp_collection, energy, light_amount, age,
                   max_edge_len, max_face_area, pos_kind, fi, vi, split_log, stage_log,
                   raw_light, hist>>

NextSimulate ==
    \/ SimConstructCoral
    \/ SimReturn

SpecSimulate == InitSimulate /\ [][NextSimulate]_vars

-----------------------------------------------------------------------------
(* Coral.calculateEnergy over the inputs the field calculators may leave *)

\* light values (after the remap) and collection values of a polyp, in tenths
EnergyLights == {-4, 0, 10}
EnergyCollections == {0, 4}
\* params.light_amount over [0, 1], in tenths
EnergyLightAmounts == 0 .. 10

\* light_total and collection_total of lines 144-145, times 3
LightTotal3 == FaceTotal3(faces, polyp_light)
CollectionTotal3 == FaceTotal3(faces, polyp_collection)

\* a constructed coral whose every vertex is bound, with any light and
\* collection arrays and its energy computed from them; hist keeps the
\* totals and the energy of the previous calculateEnergy call
InitEnergy ==
    \E m \in InitMeshes, la \in EnergyLightAmounts :
      \E li \in [0 .. (m.nverts - 1) -> EnergyLights],
         co \in [0 .. (m.nverts - 1) -> EnergyCollections] :
        /\ pc = "energy_done"
        /\ in_ctor = FALSE
        /\ verts = [k \in 1 .. m.nverts |-> [id |-> k - 1, polyp |-> k - 1]]
        /\ faces = m.faces
        /\ n_polyps = m.nverts
        /\ max_polyps = m.nverts
        /\ polyp_verts = [i \in 0 .. (m.nverts - 1) |-> i + 1]
        /\ polyp_memory = [i \in 0 .. (m.nverts - 1) |-> 0]
        /\ polyp_light = li
        /\ polyp_collection = co
        /\ energy = Energy(FaceTotal3(m.faces, li), FaceTotal3(m.faces, co), la)
        /\ light_amount = la
        /\ age = 0
        /\ max_edge_len = [num |-> SeqSum(m.edges), den |-> Len(m.edges)]
        /\ max_face_area = [num |-> SeqSum([f \in 1 .. Len(m.faces) |-> m.faces[f].area]),
                            den |-> Len(m.faces)]
        /\ pos_kind = "finite"
        /\ fi = 1
        /\ vi = 1
        /\ split_log = <<>>
        /\ stage_log = <<>>
        /\ raw_light = [i \in 0 .. (m.nverts - 1) |-> 0]
        /\ sim = NoDriver
        /\ out = NoExport
        /\ hist = [light3 |-> FaceTotal3(m.faces, li),
                   collection3 |-> FaceTotal3(m.faces, co),
                   energy |-> Energy(FaceTotal3(m.faces, li), FaceTotal3(m.faces, co), la)]

\* lines 117-125 of a later updateAttributes run: the light or the collection
\* of one polyp comes out different
FieldsRewritten ==
    /\ pc = "energy_done"
    /\ \E i \in Slots :
          \/ \E v \in EnergyLights :
                /\ polyp_light' = [polyp_light EXCEPT ![i] = v]
                /\ UNCHANGED polyp_collection
          \/ \E v \in EnergyCollections :
                /\ polyp_collection' = [polyp_collection EXCEPT ![i] = v]
                /\ UNCHANGED polyp_light
    /\ hist' = [light3 |-> LightTotal3, collection3 |-> CollectionTotal3, energy |-> energy]
    /\ pc' = "energy_call"
    /\ UNCHANGED <<sim, out, in_ctor, verts, faces, n_polyps, max_polyps, polyp_verts,
                   polyp_memory, energy, light_amount, age, max_edge_len, max_face_area,
                   pos_kind, fi, vi, split_log, stage_log, raw_light>>

\* lines 137-147 : calculateEnergy
CalculateEnergy ==
    /\ pc = "energy_call"
    /\ energy' = Energy(LightTotal3, CollectionTotal3, light_amount)
    /\ pc' = "energy_done"
    /\ UNCHANGED <<sim, out, in_ctor, verts, faces, n_polyps, max_polyps, polyp_verts,
                   polyp_memory, polyp_light, polyp_collection, light_amount, age,
                   max_edge_len, max_face_area, pos_kind, fi, vi, split_log, stage_log,
                   raw_light, hist>>

NextEnergy ==
    \/ FieldsRewritten
    \/ CalculateEnergy

SpecEnergy == InitEnergy /\ [][NextEnergy]_vars

-----------------------------------------------------------------------------
(* Properties *)

\* a step() call is under way or has returned (or raised)
InStep == ~in_ctor /\ (pc # "ready" \/ age > 0)

\* C1: n_polyps never drops below its value at the entry of the current (or
\* last) step() call, and 0 <= n_polyps <= max_polyps in every state.
C1_PolypCountMonotoneAndCapped ==
    /\ 0 <= n_polyps
    /\ n_polyps <= max_polyps
    /\ n_polyps >= hist.step_n

\* a step() call has returned after creating polyps
C1_Witness ==
    /\ pc = "ready"
    /\ age > 0
    /\ n_polyps > hist.step_n

\* C2: identity invariant. Every bound vertex carries its own identifier as
\* slot index and polyp_verts of that slot is the vertex; every slot below
\* n_polyps holds a vertex bound to that slot.
C2_IdentityInvariant ==
    /\ \A k \in 1 .. Len(verts) :
          verts[k].polyp # -1 =>
             /\ verts[k].polyp = verts[k].id
             /\ verts[k].polyp \in Slots
             /\ polyp_verts[verts[k].polyp] = k
    /\ \A i \in Slots :
          i < n_polyps => /\ polyp_verts[i] \in 1 .. Len(verts)
                          /\ verts[polyp_verts[i]].polyp = i

\* a division pass has bound the vertices of two splits
C2_Witness ==
    /\ pc = "ua_normals"
    /\ ~in_ctor
    /\ n_polyps >= hist.pass_n + 2
    /\ Len(split_log) >= 2

\* C3: whenever createPolyp binds a polyp, bit i of its memory is set iff the
\* number of bound one-ring neighbours with bit i set strictly exceeds half
\* the number of BOUND neighbours.
C3_MajorityOfBoundNeighbours ==
    [][ n_polyps' = n_polyps + 1 =>
          LET k     == polyp_verts'[n_polyps]
              bound == { j \in Neighbors(verts', faces, k) : verts'[j].polyp # -1 }
              tally(i) == Cardinality({ j \in bound : BitSet(polyp_memory[verts'[j].polyp], i) })
          IN  \A i \in 0 .. (n_memory - 1) :
                 BitSet(polyp_memory'[n_polyps], i) <=> 2 * tally(i) > Cardinality(bound)
      ]_vars

\* C4 as stated: a step() entered with n_polyps = max_polyps does not raise,
\* and leaves n_polyps and the mesh's vertices as they were.
C4_FullStepNeverRaises ==
    (InStep /\ hist.step_n = max_polyps) =>
        /\ pc # "raised"
        /\ n_polyps = hist.step_n
        /\ Len(verts) = hist.step_n

\* C4 amended: such a step creates no polyp and no vertex, and the only way
\* it raises is the NaN assertion of line 99.
C4_FullStepCreatesNothing ==
    (InStep /\ hist.step_n = max_polyps) =>
        /\ n_polyps = hist.step_n
        /\ Len(verts) = hist.step_n
        /\ \A k \in 1 .. Len(verts) : verts[k].polyp # -1
        /\ pc = "raised" => pos_kind = "nan"

\* a step entered at capacity has returned, its division pass having called split()
C4_Witness ==
    /\ pc = "ready"
    /\ age > 0
    /\ hist.step_n = max_polyps
    /\ split_log # <<>>

\* C5: no two split() calls of one division pass are on the same face.
C5_OneSplitPerFace ==
    \A i, j \in 1 .. Len(split_log) : i # j => split_log[i].face # split_log[j].face

\* C6: no split() call is issued while n_polyps = max_polyps.
C6_NoSplitAtCapacity ==
    \A i \in 1 .. Len(split_log) : split_log[i].n_polyps < max_polyps

\* C7: every split() call is on a face with an edge longer than max_edge_len
\* or an area above max_face_area; and a division pass that starts with every
\* face at or below both thresholds issues no split and adds no vertex and
\* no polyp.
C7_SmallFacesNeverSplit ==
    /\ \A i \in 1 .. Len(split_log) :
          \/ Max3(split_log[i].l) * max_edge_len.den > max_edge_len.num
          \/ split_log[i].area * max_face_area.den > max_face_area.num
    /\ ( /\ InStep
         /\ pc \notin {"assert", "raised"}
         /\ hist.pass_len * max_edge_len.den <= max_edge_len.num
         /\ hist.pass_area * max_face_area.den <= max_face_area.num )
       => /\ split_log = <<>>
          /\ Len(verts) = hist.pass_verts
          /\ n_polyps = hist.pass_n

\* the second step's division pass is over, on a mesh whose longest edge
\* equals max_edge_len and whose largest face equals max_face_area
C7_Witness ==
    /\ pc = "ua_normals"
    /\ ~in_ctor
    /\ age = 1
    /\ hist.pass_len * max_edge_len.den = max_edge_len.num
    /\ hist.pass_area * max_face_area.den = max_face_area.num
    /\ Len(verts) = hist.pass_verts

UaStages == {"ua_normals", "ua_light", "ua_collection", "ua_remap", "ua_gravity",
             "ua_morphogens", "ua_energy"}

\* C8: when updateAttributes starts, every vertex of the mesh is bound unless
\* n_polyps = max_polyps; and while it runs, the vertices and their bindings
\* are those the bind pass left.
C8_AllBoundBeforePipeline ==
    /\ pc = "ua_normals" =>
          \A k \in 1 .. Len(verts) : verts[k].polyp # -1 \/ n_polyps = max_polyps
    /\ pc \in UaStages \cup {"step_age"} =>
          /\ verts = hist.bind_verts
          /\ n_polyps = hist.bind_n

\* the pipeline of a step starts over a mesh that a split has grown
C8_Witness ==
    /\ pc = "ua_normals"
    /\ ~in_ctor
    /\ Len(verts) > hist.pass_verts
    /\ \A k \in 1 .. Len(verts) : verts[k].polyp # -1

IsPrefix(s, t) == Len(s) <= Len(t) /\ \A i \in 1 .. Len(s) : s[i] = t[i]

\* the order the claim states: the remap before flow/collection
ClaimedOrder == <<"normals", "light", "remap", "collection", "gravity", "morphogens", "energy">>

\* the order of the statements of updateAttributes
CodeOrder == <<"normals", "light", "collection", "remap", "gravity", "morphogens", "energy">>

\* C9 as stated: the stages run in the order normals, light with its remap,
\* collection, gravity, morphogens, energy.
C9_RemapBeforeCollection == IsPrefix(stage_log, ClaimedOrder)

\* C9 amended: the stages run once each in the order normals, light,
\* collection, remap, gravity, morphogens, energy.
C9_StageOrder ==
    /\ IsPrefix(stage_log, CodeOrder)
    /\ pc \in UaStages => Len(stage_log) < Len(CodeOrder)
    /\ (pc = "step_age" \/ (pc = "ready" /\ ~in_ctor)) => stage_log = CodeOrder

\* the pipeline of a step has run to its end
C9_Witness ==
    /\ pc = "step_age"
    /\ stage_log = CodeOrder

\* C10: once the remap of a run is done, a raw light of 0 is 0 and any other
\* raw value r is (r - 0.5) * 2, for every polyp.
C10_LightRemap ==
    (Len(stage_log) >= 4 /\ stage_log[4] = "remap") =>
        \A i \in Slots :
            polyp_light[i] = IF raw_light[i] = 0 THEN 0 ELSE (raw_light[i] - 5) * 2

\* a run has mapped a raw 0 to 0, a raw 0.3 to -0.4 and a raw 1.0 to 1.0
C10_Witness ==
    /\ pc = "step_age"
    /\ \E i, j, k \in Slots :
          /\ i < n_polyps /\ j < n_polyps /\ k < n_polyps
          /\ raw_light[i] = 0 /\ polyp_light[i] = 0
          /\ raw_light[j] = 3 /\ polyp_light[j] = -4
          /\ raw_light[k] = 10 /\ polyp_light[k] = 10

\* the remap of the current updateAttributes run is done
Remapped == Len(stage_log) >= 4 /\ stage_log[4] = "remap"

LightGrew == LightTotal3 > hist.light3 /\ CollectionTotal3 = hist.collection3
CollectionGrew == CollectionTotal3 > hist.collection3 /\ LightTotal3 = hist.light3

NonNegativeInputs == \A i \in Slots : polyp_light[i] >= 0 /\ polyp_collection[i] >= 0

\* C12 as stated: the energy is non-negative for non-negative inputs, and
\* strictly greater than at the previous call whenever one total grew with
\* the other held fixed, for every light_amount in [0, 1].
C12_EnergyStrictlyIncreasing ==
    pc = "energy_done" =>
        /\ NonNegativeInputs => energy >= 0
        /\ LightGrew => energy > hist.energy
        /\ CollectionGrew => energy > hist.energy

\* C12 amended: the energy is non-negative for non-negative inputs and never
\* decreases when one total grows with the other held fixed; it strictly
\* increases with the light total iff light_amount > 0, and with the
\* collection total iff light_amount < 1.
C12_EnergyMonotone ==
    pc = "energy_done" =>
        /\ NonNegativeInputs => energy >= 0
        /\ LightGrew => /\ energy >= hist.energy
                        /\ energy > hist.energy <=> light_amount > 0
        /\ CollectionGrew => /\ energy >= hist.energy
                             /\ energy > hist.energy <=> light_amount < 10

\* calculateEnergy has run on non-negative inputs after the light total grew,
\* with a weight strictly inside (0, 1), and the energy grew
C12_Witness ==
    /\ pc = "energy_done"
    /\ NonNegativeInputs
    /\ LightGrew
    /\ light_amount = 5
    /\ energy > hist.energy
    /\ hist.energy > 0

\* the decision function has emitted a zero growth signal in every step so
\* far: no polyp has moved since construction
ZeroGrowth == ~in_ctor /\ ~hist.moved

\* C13 as stated: under zero growth n_polyps keeps the value construction
\* left, no step raises, and every completed step has run the whole
\* attribute pipeline, the energy computation included.
C13_NoGrowthKeepsCount ==
    ZeroGrowth =>
        /\ n_polyps = hist.init_n
        /\ pc # "raised"
        /\ (pc = "ready" /\ age > 0) => stage_log = CodeOrder

\* no face of the initial mesh is above a threshold, or construction has
\* already filled the coral
InitialMeshWithinThresholds ==
    \/ /\ hist.init_len * max_edge_len.den <= max_edge_len.num
       /\ hist.init_area * max_face_area.den <= max_face_area.num
    \/ hist.init_n = max_polyps

\* C13 amended: the same, for an initial mesh none of whose faces has an edge
\* longer than max_edge_len or an area above max_face_area (or a coral that
\* construction has filled to max_polyps).
C13_NoGrowthKeepsCountWithinThresholds ==
    (ZeroGrowth /\ InitialMeshWithinThresholds) =>
        /\ n_polyps = hist.init_n
        /\ pc # "raised"
        /\ (pc = "ready" /\ age > 0) => stage_log = CodeOrder

\* two steps without growth have returned on a coral below its capacity
C13_Witness ==
    /\ ZeroGrowth
    /\ InitialMeshWithinThresholds
    /\ pc = "ready"
    /\ age >= 2
    /\ n_polyps = hist.init_n
    /\ n_polyps < max_polyps
    /\ stage_log = CodeOrder

\* C14: when the movement stage of a step leaves a non-finite coordinate
\* (NaN, +infinity or -infinity) in a live position, the step raises at the
\* assertion: it never reaches the division pass, the pipeline or the age
\* increment.
C14_NonFiniteAborts ==
    (InStep /\ pos_kind # "finite") => pc \in {"assert", "raised"}

\* C15: a createPolyp call on a vertex that already has a polyp, or made
\* while n_polyps = max_polyps, raises nothing and leaves n_polyps, the
\* bindings of the vertices and the polyp arrays as they were.
C15_CreatePolypIdempotentSafe ==
    [][ \A k \in 1 .. Len(verts) :
          (ClientCreatePolypOn(k) /\ (verts[k].polyp # -1 \/ n_polyps = max_polyps)) =>
              /\ pc' # "raised"
              /\ UNCHANGED <<n_polyps, verts, polyp_verts, polyp_memory, polyp_light,
                             polyp_collection>>
      ]_vars

C17_MemoryOrderIndependent ==
    [][ n_polyps' = n_polyps + 1 =>
          LET k == polyp_verts'[n_polyps]
          IN  \A order \in Orders(Neighbors(verts', faces, k)) :
                 MemoryLoop(order, verts', polyp_memory, n_polyps) = polyp_memory'[n_polyps]
      ]_vars

\* the bind pass has just bound a vertex that inherited a bit from a one-ring
\* in which a vertex has no polyp yet
C17_Witness ==
    /\ pc = "div_bind"
    /\ vi > 1
    /\ vi - 1 <= Len(verts)
    /\ n_polyps > hist.pass_n
    /\ verts[vi - 1].polyp = n_polyps - 1
    /\ BitSet(polyp_memory[n_polyps - 1], 0)
    /\ \E j \in Neighbors(verts, faces, vi - 1) : verts[j].polyp = -1

\* the slots below n_polyps and the vertices that have a polyp are in
\* one-to-one correspondence through polyp_verts and vert.data['polyp']
SlotsBijection ==
    /\ \A i \in 0 .. (n_polyps - 1) :
          /\ polyp_verts[i] \in 1 .. Len(verts)
          /\ verts[polyp_verts[i]].polyp = i
    /\ \A k \in 1 .. Len(verts) :
          verts[k].polyp # -1 =>
             /\ verts[k].polyp \in 0 .. (n_polyps - 1)
             /\ polyp_verts[verts[k].polyp] = k

\* C18: a vertex that has a polyp keeps that polyp, and the polyp's slot keeps
\* that vertex, through every step of the program; and the correspondence
\* between slots and bound vertices is one-to-one in every state.
C18_BoundOnceForever ==
    /\ SlotsBijection
    /\ [][ /\ \A k \in 1 .. Len(verts) :
                verts[k].polyp # -1 =>
                   /\ k <= Len(verts')
                   /\ verts'[k].polyp = verts[k].polyp
                   /\ polyp_verts'[verts[k].polyp] = k
           /\ SlotsBijection'
         ]_vars

\* two steps have each bound new polyps
C18_Witness ==
    /\ pc = "ready"
    /\ age >= 2
    /\ hist.step_n > hist.init_n
    /\ n_polyps > hist.step_n

\* C19: when calculateEnergy runs, every index at which it reads polyp_light
\* and polyp_collection is below n_polyps.
C19_EnergyReadsLivePolypsOnly ==
    pc = "ua_energy" => \A i \in EnergyReads : i < n_polyps

\* C20: simulate_network comes to its end with a simulated coral for each
\* configuration of params; for none of them it has called step() more than
\* max_steps times; and the age of the coral is the number of step() calls
\* made on it.
C20_DriverRunsEveryConfiguration ==
    /\ pc \in {"sim_returned", "raised"} => sim.corals = Len(sim.params)
    /\ sim.w_i \in 1 .. Len(sim.params) => sim.s <= sim.params[sim.w_i].max_steps
    /\ age = sim.s

====
